---- MODULE Spec2Model ----
(***************************************************************************)
(* Model of fetch_news.py: one run loads data.json, selects new feed       *)
(* entries under the per-feed cap, the global cap and the recency window,  *)
(* enriches them with the generator under the time budget, merges them     *)
(* into the uid-keyed mapping and rewrites data.json sorted by published.  *)
(*                                                                         *)
(* Strings that the code only stores are TLA+ strings ("" is the falsy     *)
(* value: a missing or empty uid/link).  Strings the code converts or      *)
(* compares (published, summary_ai, topics) are sequences of characters.   *)
(* An optional field is <<>> when absent and <<v>> when present.           *)
(* Item fields no operation decides on (title, type, audio_url) are left   *)
(* out of the records.                                                     *)
(***************************************************************************)
EXTENDS Integers, Sequences, FiniteSets, TLC

VARIABLES
    feeds,            \* what feedparser.parse does for each feed of RSS_FEEDS
    cfg,              \* MAX_PER_FEED, MAX_TOTAL, RECENCY_DAYS, RUN_BUDGET_SEC, FIRST_RUN_SHALLOW
    file,             \* data.json: [exists, items]
    pc,               \* position of the script
    runs,             \* number of runs started
    existing_data,    \* the uid -> item mapping, in insertion order
    new_entries,      \* list built by get_new_entries
    fi,               \* index of the feed of the outer loop
    ei,               \* index of the entry of the inner loop
    picked_for_feed,
    processed_entries,
    pi,               \* index of the entry of the enrichment loop
    remaining,
    elapsed,          \* time.time() - start_ts, in seconds
    clock,            \* time.time() as used by the synthesized uid
    fileAtStart,      \* history: data.json when the run started
    calls,            \* history: uids the generator was called for in this run
    saved,            \* history: save_data was performed in this run
    failedAt,         \* history: per feed, the entry whose processing raised (0: none)
    lastSeen,         \* history: per feed, the last entry the inner loop examined
    raw_resp,         \* the generator response under coercion
    attached          \* the result attached to the item for raw_resp

vars == <<feeds, cfg, file, pc, runs, existing_data, new_entries, fi, ei,
          picked_for_feed, processed_entries, pi, remaining, elapsed, clock,
          fileAtStart, calls, saved, failedAt, lastSeen, raw_resp, attached>>

-----------------------------------------------------------------------------
(* Bounds *)

MaxEntries == 2      \* entries a feed returns
MaxRuns == 2         \* runs of the script
MaxCap == 2          \* largest MAX_PER_FEED / MAX_TOTAL tried
MaxBudget == 1       \* largest RUN_BUDGET_SEC tried
MaxStore == 1        \* items of the data.json the first run finds
NowDay == 10         \* the day the runs take place
MaxTopics == 4       \* longest topics list the generator returns

-----------------------------------------------------------------------------
(* Values *)

None == <<>>
Some(v) == <<v>>

Range(s) == {s[i] : i \in 1..Len(s)}

Min(a, b) == IF a <= b THEN a ELSE b

Reverse(s) == [i \in 1..Len(s) |-> s[Len(s) + 1 - i]]

Take(s, n) == IF n >= 0 THEN SubSeq(s, 1, Min(n, Len(s)))
              ELSE SubSeq(s, 1, Len(s) + n)

\* str < str of Python: lexicographic on the characters, a proper prefix is smaller
StrLess(a, b) ==
    \E k \in 1..Len(b) :
        /\ \A j \in 1..(k - 1) : j <= Len(a) /\ a[j] = b[j]
        /\ \/ k = Len(a) + 1
           \/ k <= Len(a) /\ a[k] < b[k]

RSS_FEEDS == << [name |-> "Heise KI Update", type |-> "podcast"],
               [name |-> "MIT Technology Review", type |-> "article"] >>

FeedIds == 1..Len(RSS_FEEDS)

-----------------------------------------------------------------------------
(* 3) HELFER *)

\* item.get("uid") or item.get("link")
ItemKey(item) == IF item.uid # "" THEN item.uid ELSE item.link

Keys(data) == {ItemKey(data[i]) : i \in 1..Len(data)}

\* d[key] = item on an insertion-ordered dict: an existing key keeps its place
DictPutList(data, item) == Append(data, item)

DictPut(data, item) ==
    IF ItemKey(item) \in Keys(data)
    THEN [i \in 1..Len(data) |->
             IF ItemKey(data[i]) = ItemKey(item) THEN item ELSE data[i]]
    ELSE Append(data, item)

\* for item in items: uid = item.get("uid") or item.get("link"); if uid: d[uid] = item
RECURSIVE MergeInto(_, _)
MergeInto(data, items) ==
    IF items = <<>> THEN data
    ELSE MergeInto(IF ItemKey(Head(items)) # "" THEN DictPut(data, Head(items)) ELSE data,
                   Tail(items))

load_existing_data(f) == IF ~f.exists THEN <<>> ELSE MergeInto(<<>>, f.items)

\* datetime.isoformat() of a day: two decimal digits
_iso_from_struct_time(day) == << day \div 10, day % 10 >>

\* id or guid or link, else "no-id::<title>::<time.time()>"
_make_uid(entry, now) ==
    IF entry.id # "" THEN entry.id
    ELSE IF entry.link # "" THEN entry.link
    ELSE "no-id::" \o ToString(now)

\* published_parsed / updated_parsed, else datetime.now
PublishedDay(entry) == IF entry.day # 0 THEN entry.day ELSE NowDay

_is_recent(day, days) == IF days <= 0 THEN TRUE ELSE day >= NowDay - days

-----------------------------------------------------------------------------
(* 4) FEEDS SAMMELN *)

first_run == Len(existing_data) = 0 /\ cfg.FIRST_RUN_SHALLOW

\* entries[::-1], and entries[:MAX_PER_FEED] on the first run
Entries(f) == IF first_run THEN Take(Reverse(feeds[f].entries), cfg.MAX_PER_FEED)
              ELSE Reverse(feeds[f].entries)

TotalReachedOff(n) == n > cfg.MAX_TOTAL

TotalReached(n) == n >= cfg.MAX_TOTAL

FeedReached(n) == n >= cfg.MAX_PER_FEED

IsKnownNever(uid, data) == FALSE

\* uid in existing_keys
IsKnown(uid, data) == uid \in Keys(data)

new_item(entry, uid, f) ==
    [ uid         |-> uid,
      source      |-> RSS_FEEDS[f].name,
      link        |-> entry.link,
      published   |-> Some(_iso_from_struct_time(PublishedDay(entry))),
      content_raw |-> Some("text"),
      summary_ai  |-> None,
      topics      |-> <<>>,
      sentiment   |-> "" ]

-----------------------------------------------------------------------------
(* 5) GEMINI-ANREICHERUNG *)

\* A JSON value is [t, v, items]: t its Python type, v the characters of a
\* string or the digits of a number, items the elements of a list; an element
\* of a list is [t, v].
JStr(chars) == [t |-> "str", v |-> chars, items |-> <<>>]
JNum(digits) == [t |-> "num", v |-> digits, items |-> <<>>]
JNull == [t |-> "null", v |-> <<>>, items |-> <<>>]
JList(vals) == [t |-> "list", v |-> <<>>, items |-> vals]
EStr(chars) == [t |-> "str", v |-> chars]
ENum(digits) == [t |-> "num", v |-> digits]

\* str(x)
PyStr(x) ==
    CASE x.t = "str" -> x.v
      [] x.t = "num" -> x.v
      [] x.t = "null" -> << "N", "o", "n", "e" >>
      [] OTHER -> << "[", "]" >>

IsSpace(c) == c = " "

\* str.strip()
RECURSIVE LStrip(_)
LStrip(s) == IF s # <<>> /\ IsSpace(Head(s)) THEN LStrip(Tail(s)) ELSE s

Strip(s) == Reverse(LStrip(Reverse(LStrip(s))))

Placeholder == << "Zusammenfassung konnte nicht erstellt werden." >>

Sentiments == {"positiv", "neutral", "negativ"}

\* x not in {"positiv", "neutral", "negativ"} raises TypeError on an unhashable x
Unhashable(x) == x.t = "list"

SentimentLabel(x) == IF x.t = "str" /\ Len(x.v) = 1 /\ x.v[1] \in Sentiments
                     THEN x.v[1] ELSE "neutral"

\* the parsed response: a JSON object with optional keys, or another JSON value
EmptyObject == [t |-> "dict", summary_ai |-> None, topics |-> None, sentiment |-> None]

PadOff(topics) == topics

\* while len(out["topics"]) < 3: out["topics"].append("")
RECURSIVE Pad(_)
Pad(topics) == IF Len(topics) < 3 THEN Pad(Append(topics, <<>>)) ELSE topics

CoerceTopics(x) ==
    LET lst == IF x.t = "list" THEN x.items ELSE <<>>
        strs == [i \in 1..Len(lst) |-> PyStr(lst[i])]
    IN  Pad(Take(strs, 3))

\* [raised, out]: raised when obj has no .get or the sentiment is unhashable
_coerce_result(obj) ==
    LET summary == IF obj.summary_ai = None THEN JStr(Placeholder) ELSE obj.summary_ai[1]
        topics == IF obj.topics = None THEN JList(<<>>) ELSE obj.topics[1]
        sentiment == IF obj.sentiment = None THEN JStr(<<"neutral">>) ELSE obj.sentiment[1]
    IN  IF obj.t # "dict" \/ Unhashable(sentiment)
        THEN [raised |-> TRUE,
              out |-> [summary_ai |-> <<>>, topics |-> <<>>, sentiment |-> ""]]
        ELSE [raised |-> FALSE,
              out |-> [summary_ai |-> Strip(PyStr(summary)),
                       topics |-> CoerceTopics(topics),
                       sentiment |-> SentimentLabel(sentiment)]]

\* json.loads(raw), else json.loads of the first {...} span, else {}
ParseRaw(resp) ==
    CASE resp.form = "json" -> [raised |-> FALSE, data |-> resp.data]
      [] resp.form = "wrapped" -> [raised |-> FALSE, data |-> resp.data]
      [] resp.form = "braces" -> [raised |-> TRUE, data |-> EmptyObject]
      [] OTHER -> [raised |-> FALSE, data |-> EmptyObject]

OnExceptionPartial == [summary_ai |-> Placeholder, topics |-> <<>>, sentiment |-> ""]

\* the except branch: entry.update(_coerce_result({}))
OnException == _coerce_result(EmptyObject).out

\* what the try/except of one loop pass puts on the entry
EnrichResult(resp) ==
    IF resp.form = "error" THEN OnException
    ELSE LET p == ParseRaw(resp)
         IN  IF p.raised THEN OnException
             ELSE LET c == _coerce_result(p.data)
                  IN  IF c.raised THEN OnException ELSE c.out

PopRawOff(item) == item

\* entry.pop("content_raw", None)
PopRaw(item) == [item EXCEPT !.content_raw = None]

\* entry.update(coerced), then the finally branch removes content_raw
Enriched(item, resp) ==
    LET r == EnrichResult(resp)
    IN  PopRaw([item EXCEPT !.summary_ai = Some(r.summary_ai),
                            !.topics = r.topics,
                            !.sentiment = r.sentiment])

\* (time.time() - start_ts) >= RUN_BUDGET_SEC
BudgetReached(t) == t >= cfg.RUN_BUDGET_SEC

-----------------------------------------------------------------------------
(* 6) SPEICHERN *)

\* x.get("published", "")
SortKey(item) == IF item.published = None THEN <<>> ELSE item.published[1]

\* place x behind every element whose key is not smaller (the sort is stable)
RECURSIVE InsertDesc(_, _)
InsertDesc(s, x) ==
    IF s = <<>> THEN <<x>>
    ELSE IF StrLess(SortKey(Head(s)), SortKey(x)) THEN <<x>> \o s
    ELSE <<Head(s)>> \o InsertDesc(Tail(s), x)

RECURSIVE SortDesc(_, _)
SortDesc(done, todo) ==
    IF todo = <<>> THEN done ELSE SortDesc(InsertDesc(done, Head(todo)), Tail(todo))

sortedUnsorted(all_items) == all_items

\* sorted(all_items, key=lambda x: x.get("published", ""), reverse=True)
sorted(all_items) == SortDesc(<<>>, all_items)

save_data(all_items) == [exists |-> TRUE, items |-> sorted(all_items)]

-----------------------------------------------------------------------------
(* Inputs *)

\* a feed entry: native id (or guid), link, published day (0: none), and
\* whether building the item from it raises
EntryPool ==
    { [id |-> "",   link |-> "u1", day |-> NowDay,     bad |-> FALSE],
      [id |-> "",   link |-> "",   day |-> NowDay - 2, bad |-> FALSE],
      [id |-> "u4", link |-> "l4", day |-> 0,          bad |-> TRUE] }

SeqsUpTo(S, n) == UNION {[1..k -> S] : k \in 0..n}

\* a feed lists an entry once
FeedContents ==
    { s \in SeqsUpTo(EntryPool, MaxEntries) : \A i, j \in 1..Len(s) : s[i] = s[j] => i = j }

\* what feedparser.parse does for a feed: it returns entries, or it raises
FeedStates ==
    {[ok |-> TRUE, entries |-> s] : s \in FeedContents}
        \cup {[ok |-> FALSE, entries |-> <<>>]}

Configs ==
    [ MAX_PER_FEED      : 0..MaxCap,
      MAX_TOTAL         : 0..MaxCap,
      RECENCY_DAYS      : {0, 1},
      RUN_BUDGET_SEC    : {0, MaxBudget},
      FIRST_RUN_SHALLOW : BOOLEAN ]

\* items an earlier run, or an earlier revision of the script, has stored
StoredPool ==
    { [uid |-> "", source |-> "Heise KI Update", link |-> "u1",
       published |-> None, content_raw |-> None,
       summary_ai |-> Some(<<"a">>), topics |-> << <<"k">>, <<>>, <<>> >>,
       sentiment |-> "negativ"] }

IsSortedDesc(items) ==
    \A i \in 1..(Len(items) - 1) : ~StrLess(SortKey(items[i]), SortKey(items[i + 1]))

UniqueKeys(items) ==
    \A i, j \in 1..Len(items) : ItemKey(items[i]) = ItemKey(items[j]) => i = j

InitStores ==
    { s \in SeqsUpTo(StoredPool, MaxStore) : IsSortedDesc(s) /\ UniqueKeys(s) }

GoodObject ==
    [t |-> "dict", summary_ai |-> Some(JStr(<<"K", ".">>)),
     topics |-> Some(JList(<< EStr(<<"k">>), EStr(<<"m">>), EStr(<<"s">>) >>)),
     sentiment |-> Some(JStr(<<"positiv">>))]

\* generator outcomes tried in a run: an error, a full answer, an empty object
RunResponses ==
    { [form |-> "error", data |-> EmptyObject],
      [form |-> "json", data |-> GoodObject],
      [form |-> "json", data |-> EmptyObject] }

NoResponse == [form |-> "none", data |-> EmptyObject]

-----------------------------------------------------------------------------
(* 7) MAIN, one action per step of the script *)

Init ==
    /\ feeds \in [FeedIds -> FeedStates]
    /\ cfg \in Configs
    /\ \E s \in InitStores : file = [exists |-> s # <<>>, items |-> s]
    /\ pc = "idle"
    /\ runs = 0
    /\ existing_data = <<>>
    /\ new_entries = <<>>
    /\ fi = 1
    /\ ei = 1
    /\ picked_for_feed = 0
    /\ processed_entries = <<>>
    /\ pi = 1
    /\ remaining = 0
    /\ elapsed = 0
    /\ clock = 0
    /\ fileAtStart = file
    /\ calls = {}
    /\ saved = FALSE
    /\ failedAt = [f \in FeedIds |-> 0]
    /\ lastSeen = [f \in FeedIds |-> 0]
    /\ raw_resp = NoResponse
    /\ attached = None

coercion == <<raw_resp, attached>>
selection == <<new_entries, fi, ei, picked_for_feed, failedAt, lastSeen, clock>>
enrichment == <<processed_entries, pi, remaining, elapsed, calls>>
static == <<feeds, cfg, coercion>>

\* existing_data = load_existing_data(); get_new_entries starts
StartRun ==
    /\ pc = "idle"
    /\ runs < MaxRuns
    /\ runs' = runs + 1
    /\ existing_data' = load_existing_data(file)
    /\ fileAtStart' = file
    /\ new_entries' = <<>>
    /\ fi' = 1
    /\ ei' = 1
    /\ picked_for_feed' = 0
    /\ processed_entries' = <<>>
    /\ pi' = 1
    /\ remaining' = 0
    /\ elapsed' = 0
    /\ calls' = {}
    /\ saved' = FALSE
    /\ failedAt' = [f \in FeedIds |-> 0]
    /\ lastSeen' = [f \in FeedIds |-> 0]
    /\ pc' = "feeds"
    /\ UNCHANGED <<static, file, clock>>

LoopOver == fi > Len(RSS_FEEDS) \/ TotalReached(Len(new_entries))

ReturnNewEntries ==
    /\ fi' = 1
    /\ ei' = 1
    /\ picked_for_feed' = 0
    /\ failedAt' = [f \in FeedIds |-> 0]
    /\ lastSeen' = [f \in FeedIds |-> 0]

\* get_new_entries returns nothing: the else branch of main, data.json is not written
NoNewEntries ==
    /\ pc = "feeds"
    /\ LoopOver
    /\ new_entries = <<>>
    /\ ReturnNewEntries
    /\ pc' = "done"
    /\ UNCHANGED <<static, file, runs, existing_data, new_entries, clock, enrichment,
                   fileAtStart, saved>>

\* get_new_entries returns entries; process_with_gemini starts: start_ts,
\* remaining = MAX_TOTAL
StartEnrich ==
    /\ pc = "feeds"
    /\ LoopOver
    /\ new_entries # <<>>
    /\ ReturnNewEntries
    /\ processed_entries' = <<>>
    /\ pi' = 1
    /\ remaining' = cfg.MAX_TOTAL
    /\ elapsed' = 0
    /\ pc' = "enrich"
    /\ UNCHANGED <<static, file, runs, existing_data, new_entries, clock, calls,
                   fileAtStart, saved>>

\* feedparser.parse raises: the feed contributes nothing
FeedFetchFail ==
    /\ pc = "feeds"
    /\ fi <= Len(RSS_FEEDS) /\ ~TotalReached(Len(new_entries))
    /\ ~feeds[fi].ok
    /\ fi' = fi + 1
    /\ UNCHANGED <<static, file, pc, runs, existing_data, new_entries, ei,
                   picked_for_feed, failedAt, lastSeen, clock, enrichment,
                   fileAtStart, saved>>

FeedFetchOk ==
    /\ pc = "feeds"
    /\ fi <= Len(RSS_FEEDS) /\ ~TotalReached(Len(new_entries))
    /\ feeds[fi].ok
    /\ ei' = 1
    /\ picked_for_feed' = 0
    /\ pc' = "entries"
    /\ UNCHANGED <<static, file, runs, existing_data, new_entries, fi, failedAt,
                   lastSeen, clock, enrichment, fileAtStart, saved>>

\* the inner loop ends: no entry is left, or a cap is reached
FeedEnd ==
    /\ pc = "entries"
    /\ \/ ei > Len(Entries(fi))
       \/ TotalReached(Len(new_entries))
       \/ FeedReached(picked_for_feed)
    /\ fi' = fi + 1
    /\ pc' = "feeds"
    /\ UNCHANGED <<static, file, runs, existing_data, new_entries, ei,
                   picked_for_feed, failedAt, lastSeen, clock, enrichment,
                   fileAtStart, saved>>

InLoop ==
    /\ pc = "entries"
    /\ ei <= Len(Entries(fi))
    /\ ~TotalReached(Len(new_entries))
    /\ ~FeedReached(picked_for_feed)

CurEntry == Entries(fi)[ei]

CurUid == _make_uid(CurEntry, clock)

\* time.time() has moved on when the next uid is synthesized from it; a
\* synthesized uid that is not stored leaves no trace
Tick == IF CurEntry.id = "" /\ CurEntry.link = "" THEN clock + 1 ELSE clock

\* continue: the uid is known
EntrySkipKnown ==
    /\ InLoop
    /\ IsKnown(CurUid, existing_data)
    /\ ei' = ei + 1
    /\ lastSeen' = [lastSeen EXCEPT ![fi] = ei]
    /\ UNCHANGED <<static, clock, file, pc, runs, existing_data, new_entries, fi,
                   picked_for_feed, failedAt, enrichment, fileAtStart, saved>>

\* continue: the entry is older than RECENCY_DAYS
EntrySkipOld ==
    /\ InLoop
    /\ ~IsKnown(CurUid, existing_data)
    /\ ~_is_recent(PublishedDay(CurEntry), cfg.RECENCY_DAYS)
    /\ ei' = ei + 1
    /\ lastSeen' = [lastSeen EXCEPT ![fi] = ei]
    /\ UNCHANGED <<static, clock, file, pc, runs, existing_data, new_entries, fi,
                   picked_for_feed, failedAt, enrichment, fileAtStart, saved>>

\* building the item raises: the except of the feed's try ends the feed
EntryFail ==
    /\ InLoop
    /\ ~IsKnown(CurUid, existing_data)
    /\ _is_recent(PublishedDay(CurEntry), cfg.RECENCY_DAYS)
    /\ CurEntry.bad
    /\ failedAt' = [failedAt EXCEPT ![fi] = ei]
    /\ lastSeen' = [lastSeen EXCEPT ![fi] = ei]
    /\ fi' = fi + 1
    /\ pc' = "feeds"
    /\ UNCHANGED <<static, clock, file, runs, existing_data, new_entries, ei,
                   picked_for_feed, enrichment, fileAtStart, saved>>

EntrySelect ==
    /\ InLoop
    /\ ~IsKnown(CurUid, existing_data)
    /\ _is_recent(PublishedDay(CurEntry), cfg.RECENCY_DAYS)
    /\ ~CurEntry.bad
    /\ new_entries' = Append(new_entries, new_item(CurEntry, CurUid, fi))
    /\ picked_for_feed' = picked_for_feed + 1
    /\ ei' = ei + 1
    /\ lastSeen' = [lastSeen EXCEPT ![fi] = ei]
    /\ clock' = Tick
    /\ UNCHANGED <<static, file, pc, runs, existing_data, fi, failedAt,
                   enrichment, fileAtStart, saved>>

\* one pass of the loop: generator call, coercion, finally
EnrichStep ==
    /\ pc = "enrich"
    /\ pi <= Len(new_entries)
    /\ remaining > 0
    /\ ~BudgetReached(elapsed)
    /\ \E resp \in RunResponses, dt \in 0..1 :
          LET entry == Enriched(new_entries[pi], resp)
          IN  /\ new_entries' = [new_entries EXCEPT ![pi] = entry]
              /\ processed_entries' = Append(processed_entries, entry)
              /\ calls' = calls \cup {new_entries[pi].uid}
              /\ elapsed' = Min(elapsed + dt, cfg.RUN_BUDGET_SEC)
    /\ remaining' = remaining - 1
    /\ pi' = pi + 1
    /\ UNCHANGED <<static, file, pc, runs, existing_data, fi, ei, picked_for_feed,
                   failedAt, lastSeen, clock, fileAtStart, saved>>

\* the loop is over or was stopped; main merges by uid and calls save_data
MergeAndSave ==
    /\ pc = "enrich"
    /\ pi > Len(new_entries) \/ remaining <= 0 \/ BudgetReached(elapsed)
    /\ existing_data' = MergeInto(existing_data, processed_entries)
    /\ file' = save_data(existing_data')
    /\ saved' = TRUE
    /\ pi' = 1
    /\ remaining' = 0
    /\ elapsed' = 0
    /\ pc' = "done"
    /\ UNCHANGED <<static, runs, selection, processed_entries, calls, fileAtStart>>

\* the process exits: only data.json and the clock outlive it
EndRun ==
    /\ pc = "done"
    /\ pc' = "idle"
    /\ existing_data' = <<>>
    /\ new_entries' = <<>>
    /\ fi' = 1
    /\ ei' = 1
    /\ picked_for_feed' = 0
    /\ processed_entries' = <<>>
    /\ pi' = 1
    /\ remaining' = 0
    /\ elapsed' = 0
    /\ calls' = {}
    /\ saved' = FALSE
    /\ failedAt' = [f \in FeedIds |-> 0]
    /\ lastSeen' = [f \in FeedIds |-> 0]
    /\ fileAtStart' = file
    /\ UNCHANGED <<static, file, runs, clock>>

Next ==
    \/ StartRun
    \/ FeedFetchFail
    \/ FeedFetchOk
    \/ FeedEnd
    \/ EntrySkipKnown
    \/ EntrySkipOld
    \/ EntryFail
    \/ EntrySelect
    \/ NoNewEntries
    \/ StartEnrich
    \/ EnrichStep
    \/ MergeAndSave
    \/ EndRun

Spec == Init /\ [][Next]_vars

-----------------------------------------------------------------------------
(* Coercion of one generator response, for every response *)

SummaryVals ==
    { None, Some(JNull), Some(JNum(<<"7">>)), Some(JStr(<<>>)),
      Some(JStr(<<" ", "K", ".", " ">>)) }

TopicElems == { EStr(<<"k">>), ENum(<<"7">>) }

TopicVals ==
    { None, Some(JNull), Some(JStr(<<"k">>)) }
        \cup { Some(JList(l)) : l \in SeqsUpTo(TopicElems, MaxTopics) }

SentimentVals ==
    { None, Some(JNull), Some(JStr(<<"positiv">>)), Some(JStr(<<"neutral">>)),
      Some(JStr(<<"negativ">>)), Some(JStr(<<"positive">>)), Some(JList(<<>>)) }

Objects ==
    [ t : {"dict"}, summary_ai : SummaryVals, topics : TopicVals,
      sentiment : SentimentVals ]

\* a JSON value that is no object: a list, a number, a string, null
NoObject == [t |-> "other", summary_ai |-> None, topics |-> None, sentiment |-> None]

\* form: the generator raised ("error"), the text is JSON ("json"), holds a
\* JSON object between other text ("wrapped"), holds braces around no JSON
\* ("braces"), or holds no braces ("nomatch")
AllResponses ==
    [ form : {"json"}, data : Objects \cup {NoObject} ]
        \cup [ form : {"wrapped"}, data : Objects ]
        \cup [ form : {"error", "braces", "nomatch"}, data : {EmptyObject} ]

DefaultConfig ==
    [ MAX_PER_FEED |-> 3, MAX_TOTAL |-> 30, RECENCY_DAYS |-> 14,
      RUN_BUDGET_SEC |-> 180, FIRST_RUN_SHALLOW |-> TRUE ]

InitCoerce ==
    /\ raw_resp \in AllResponses
    /\ attached = None
    /\ pc = "coerce"
    /\ feeds = [f \in FeedIds |-> [ok |-> TRUE, entries |-> <<>>]]
    /\ cfg = DefaultConfig
    /\ file = [exists |-> FALSE, items |-> <<>>]
    /\ runs = 0
    /\ existing_data = <<>>
    /\ new_entries = <<>>
    /\ fi = 1
    /\ ei = 1
    /\ picked_for_feed = 0
    /\ processed_entries = <<>>
    /\ pi = 1
    /\ remaining = 0
    /\ elapsed = 0
    /\ clock = 0
    /\ fileAtStart = file
    /\ calls = {}
    /\ saved = FALSE
    /\ failedAt = [f \in FeedIds |-> 0]
    /\ lastSeen = [f \in FeedIds |-> 0]

\* lines 292-322 for one response
Coerce ==
    /\ pc = "coerce"
    /\ attached' = Some(EnrichResult(raw_resp))
    /\ pc' = "coerced"
    /\ UNCHANGED <<feeds, cfg, file, runs, existing_data, selection, enrichment,
                   fileAtStart, saved, raw_resp>>

NextCoerce == Coerce

SpecCoerce == InitCoerce /\ [][NextCoerce]_vars

-----------------------------------------------------------------------------
(* Properties *)

KnownAtStart == Keys(load_existing_data(fileAtStart))

Count(items, key) == Cardinality({i \in 1..Len(items) : ItemKey(items[i]) = key})

SameEnrichment(a, b) ==
    /\ a.summary_ai = b.summary_ai
    /\ a.topics = b.topics
    /\ a.sentiment = b.sentiment

\* C1 as stated: a second run over unchanged feeds, from the store the first
\* run left, does not increase the number of stored items and leaves
\* summary_ai, topics and sentiment of every stored item as they were.
C1_Idempotent ==
    (pc = "done" /\ runs >= 2) =>
        /\ Len(file.items) <= Len(fileAtStart.items)
        /\ \A i \in 1..Len(fileAtStart.items) :
              \E j \in 1..Len(file.items) :
                 /\ ItemKey(file.items[j]) = ItemKey(fileAtStart.items[i])
                 /\ SameEnrichment(file.items[j], fileAtStart.items[i])

\* C1 amended: a second run over unchanged feeds leaves every stored item
\* exactly as it was, and adds at most MAX_TOTAL items, each with a uid the
\* store did not hold when the run started.
C1_SecondRunOnlyAdds ==
    (pc = "done" /\ runs >= 2) =>
        /\ \A i \in 1..Len(fileAtStart.items) :
              fileAtStart.items[i] \in Range(file.items)
        /\ Len(file.items) - Len(fileAtStart.items) <= cfg.MAX_TOTAL
        /\ \A x \in Range(file.items) \ Range(fileAtStart.items) :
              ItemKey(x) \notin KnownAtStart

C1_Witness ==
    /\ pc = "done" /\ runs = 2 /\ saved
    /\ \E i \in 1..Len(fileAtStart.items) : fileAtStart.items[i].sentiment = "positiv"
    /\ Len(file.items) > Len(fileAtStart.items)

\* C2: an entry whose uid is a key of the store loaded at the start of the
\* run is not selected, the generator is not called for it, and after the
\* run the store holds exactly one item with that uid.
C2_KnownSkipped ==
    pc # "idle" =>
        \A u \in KnownAtStart :
            /\ u \notin calls
            /\ \A i \in 1..Len(new_entries) : new_entries[i].uid # u
            /\ pc = "done" => Count(file.items, u) = 1

\* the inner loop has just examined an entry whose uid is in the store
C2_Witness ==
    /\ pc = "entries" /\ runs = 2
    /\ ei > 1 /\ lastSeen[fi] = ei - 1
    /\ _make_uid(Entries(fi)[ei - 1], clock) \in KnownAtStart
    /\ new_entries # <<>>

FromFeed(f) == {i \in 1..Len(new_entries) : new_entries[i].source = RSS_FEEDS[f].name}

\* C3: at every point of selection and at its end at most MAX_TOTAL items
\* are selected, and at most MAX_PER_FEED from any one feed.
C3_Caps ==
    /\ Len(new_entries) <= cfg.MAX_TOTAL
    /\ \A f \in FeedIds : Cardinality(FromFeed(f)) <= cfg.MAX_PER_FEED

\* a cap stops the inner loop while the feed has entries left
C3_Witness ==
    /\ pc = "entries"
    /\ ei <= Len(Entries(fi))
    /\ picked_for_feed >= 1
    /\ TotalReached(Len(new_entries)) \/ FeedReached(picked_for_feed)

HasResult(item) ==
    /\ item.summary_ai # None
    /\ Len(item.topics) = 3
    /\ item.sentiment \in Sentiments

ResultOf(item) ==
    [summary_ai |-> item.summary_ai[1], topics |-> item.topics, sentiment |-> item.sentiment]

\* C4 as stated: every selected item is in the enrichment output and in the
\* merged store, with summary_ai, topics and sentiment.
C4_AllSelectedEmitted ==
    (pc = "done" /\ saved) =>
        /\ Len(processed_entries) = Len(new_entries)
        /\ \A i \in 1..Len(new_entries) :
              /\ HasResult(new_entries[i])
              /\ new_entries[i].uid \in Keys(file.items)

\* C4 amended: every selected item the loop reaches before the time budget
\* stops it is in the enrichment output, in selection order, with the coerced
\* result or, on an exception, the fully defaulted one, and its uid is in
\* the merged store; the items behind the stop are not emitted.
C4_ReachedEmitted ==
    /\ pc = "enrich" => Len(processed_entries) = pi - 1
    /\ pc \in {"enrich", "done"} =>
          /\ Len(processed_entries) <= Len(new_entries)
          /\ processed_entries = SubSeq(new_entries, 1, Len(processed_entries))
          /\ \A i \in 1..Len(processed_entries) :
                /\ HasResult(processed_entries[i])
                /\ ResultOf(processed_entries[i]) \in
                      {OnException, _coerce_result(GoodObject).out}
          /\ \A i \in (Len(processed_entries) + 1)..Len(new_entries) :
                ~HasResult(new_entries[i])
    /\ (pc = "done" /\ saved) =>
          \A i \in 1..Len(processed_entries) :
              processed_entries[i].uid \in Keys(file.items)

\* an item enriched after an exception and one behind the stop
C4_Witness ==
    /\ pc = "done" /\ saved
    /\ Len(processed_entries) >= 1
    /\ Len(processed_entries) < Len(new_entries)
    /\ ResultOf(processed_entries[1]) = OnException

\* what the code gets from the response for a key: nothing when the
\* generator raised, the text held no JSON object, or the key is missing
Given(resp, key) ==
    IF resp.form \in {"json", "wrapped"} /\ resp.data.t = "dict"
    THEN resp.data[key] ELSE None

IsString(s) == s \in Seq(STRING)

\* C5: for every generator output the result attached to the item has
\* exactly 3 topics, each a string, a sentiment among the three labels and a
\* summary_ai string; a missing summary gives the placeholder, missing or
\* non-list topics give three empty strings, a missing or invalid sentiment
\* gives neutral.
C5_CoercionTotal ==
    pc = "coerced" =>
        LET r == attached[1]
        IN  /\ Len(r.topics) = 3
            /\ \A i \in 1..Len(r.topics) : IsString(r.topics[i])
            /\ r.sentiment \in Sentiments
            /\ IsString(r.summary_ai)
            /\ Given(raw_resp, "summary_ai") = None => r.summary_ai = Placeholder
            /\ (\/ Given(raw_resp, "topics") = None
                \/ Given(raw_resp, "topics")[1].t # "list")
                  => r.topics = << <<>>, <<>>, <<>> >>
            /\ (\/ Given(raw_resp, "sentiment") = None
                \/ Given(raw_resp, "sentiment")[1] \notin
                      {JStr(<<l>>) : l \in Sentiments})
                  => r.sentiment = "neutral"

\* a JSON object with a short topics list of mixed types and an unknown label
C5_Witness ==
    /\ pc = "coerced"
    /\ raw_resp.form = "json" /\ raw_resp.data.t = "dict"
    /\ raw_resp.data.topics = Some(JList(<< ENum(<<"7">>), EStr(<<"k">>) >>))
    /\ raw_resp.data.sentiment = Some(JStr(<<"positive">>))
    /\ raw_resp.data.summary_ai = Some(JStr(<<" ", "K", ".", " ">>))
    /\ attached[1].topics = << <<"7">>, <<"k">>, <<>> >>
    /\ attached[1].summary_ai = <<"K", ".">>

\* C6 as stated: an entry whose processing raises is skipped alone; the next
\* entry of the same feed is still examined.
C6_FeedNotAborted ==
    pc \in {"feeds", "entries"} =>
        \A f \in FeedIds :
            (f < fi /\ failedAt[f] # 0 /\ failedAt[f] < Len(Entries(f)))
                => lastSeen[f] > failedAt[f]

\* C7 as stated: a run whose enrichment emits nothing does not perform save
\* and leaves data.json as it was.
C7_Untouched ==
    (pc = "done" /\ processed_entries = <<>>) => (~saved /\ file = fileAtStart)

UniqueUids(items) ==
    \A i, j \in 1..Len(items) :
        (items[i].uid # "" /\ items[i].uid = items[j].uid) => i = j

LastOfKey(items, k) ==
    \A m \in (k + 1)..Len(items) : ItemKey(items[m]) # ItemKey(items[k])

\* C8: no two items of data.json share a uid (or a key); of the processed
\* items with one uid the last one is the stored one.
C8_UidUnique ==
    /\ UniqueUids(file.items)
    /\ UniqueKeys(file.items)
    /\ (pc = "done" /\ saved) =>
          \A k \in 1..Len(processed_entries) :
              LastOfKey(processed_entries, k) =>
                  processed_entries[k] \in Range(file.items)

\* two feeds carried the same uid in one run with different results
C8_Witness ==
    /\ pc = "done" /\ saved
    /\ \E k, m \in 1..Len(processed_entries) :
          /\ k < m
          /\ processed_entries[k].uid = processed_entries[m].uid
          /\ processed_entries[k].sentiment # processed_entries[m].sentiment
          /\ processed_entries[k] \notin Range(file.items)

\* C9: no item of data.json and no emitted item has content_raw.
C9_NoContentRaw ==
    /\ \A i \in 1..Len(file.items) : file.items[i].content_raw = None
    /\ \A i \in 1..Len(processed_entries) : processed_entries[i].content_raw = None

\* a save while a selected item that was not enriched still has content_raw
C9_Witness ==
    /\ pc = "done" /\ saved
    /\ processed_entries # <<>>
    /\ \E i \in 1..Len(new_entries) : new_entries[i].content_raw # None

\* C10: after a save data.json is non-increasing by published, an item
\* without published counting as "".
C10_SortedAfterSave ==
    saved => \A i, j \in 1..Len(file.items) :
                 i < j => ~StrLess(SortKey(file.items[i]), SortKey(file.items[j]))

\* a save that moves the item without published from the front to the end
C10_Witness ==
    /\ saved
    /\ Len(file.items) >= 3
    /\ file.items[Len(file.items)].published = None
    /\ existing_data[1].published = None

====
